---------------------------- MODULE Spec2Model ----------------------------
(***************************************************************************)
(* A model of public/js/totp.js: the Base32 codec, the RFC 6238 code       *)
(* generation (generateCode, an async function that suspends at            *)
(* crypto.subtle.importKey and crypto.subtle.sign) and the countdown       *)
(* helper getRemainingSeconds.                                             *)
(*                                                                         *)
(* Representation.  A JavaScript string is a sequence of one-character     *)
(* strings, a Uint8Array a sequence of integers 0..255.  A millisecond     *)
(* timestamp does not fit TLC's 32-bit integers, so a non-negative integer *)
(* Number is a big-endian sequence of NumLen base-256 digits ("Num").  The *)
(* timestamps of the model are integers below 2^48, where the double       *)
(* arithmetic of Math.floor(time / 1000 / period) is exact integer floor   *)
(* division.                                                               *)
(*                                                                         *)
(* Specifications.  SpecCodec runs the codec on enumerated inputs; Spec    *)
(* interleaves MaxCalls generateCode calls with the clock; SpecVectors     *)
(* does so for the calls of the RFC 6238 test; SpecAnyDigest runs one      *)
(* call over wide arguments with sign returning any sampled digest;        *)
(* SpecClock polls getRemainingSeconds while the clock advances.           *)
(***************************************************************************)
EXTENDS Integers, Sequences, FiniteSets, TLC

VARIABLES
    codecOp,    \* which codec entry point the caller runs
    codecPc,    \* how far that call has got
    bytes,      \* the Uint8Array handed to bytesToBase32
    base32,     \* the string returned by bytesToBase32 / handed to base32ToBytes
    decoded,    \* the Uint8Array returned by base32ToBytes
    calls,      \* the generateCode invocations, each with its own locals
    now,        \* Date.now(), a Num of milliseconds
    ticks,      \* how often the clock has advanced
    countdown   \* the last two results of getRemainingSeconds

vars == <<codecOp, codecPc, bytes, base32, decoded, calls, now, ticks, countdown>>

codecVars == <<codecOp, codecPc, bytes, base32, decoded>>

-----------------------------------------------------------------------------
(* Bounds of the model *)

MaxLen == 5             \* longest enumerated byte sequence
MaxTextLen == 4         \* longest enumerated string handed to base32ToBytes
MaxCalls == 2           \* generateCode invocations in flight
MaxTicks == 1           \* clock advances while calls are in flight
MaxCountdownTicks == 8  \* clock advances of the countdown
MaxDigits == 10         \* largest `digits` argument
NumLen == 7             \* base-256 digits of a Num

-----------------------------------------------------------------------------
(* String and number primitives of the language *)

Min(a, b) == IF a < b THEN a ELSE b

Repeat(ch, n) == [i \in 1..n |-> ch]

\* s.slice(a, b) for 0 <= a <= b
Slice(s, a, b) == SubSeq(s, a + 1, Min(b, Len(s)))

\* s.padStart(len, ch)
PadStart(s, len, ch) == IF Len(s) >= len THEN s ELSE Repeat(ch, len - Len(s)) \o s

DigitChar(d) == <<"0", "1", "2", "3", "4", "5", "6", "7", "8", "9">>[d + 1]

DecimalChars == {"0", "1", "2", "3", "4", "5", "6", "7", "8", "9"}

\* n.toString(radix) for an integer n >= 0 and radix 2 or 10
RECURSIVE ToStringRadix(_, _)
ToStringRadix(n, radix) ==
    IF n < radix THEN <<DigitChar(n)>>
    ELSE ToStringRadix(n \div radix, radix) \o <<DigitChar(n % radix)>>

\* parseInt(s, 2) for a non-empty string of "0" and "1"
RECURSIVE ParseBinary(_)
ParseBinary(s) ==
    IF Len(s) = 0 THEN 0
    ELSE 2 * ParseBinary(SubSeq(s, 1, Len(s) - 1)) + (IF s[Len(s)] = "1" THEN 1 ELSE 0)

UpperOf(ch) ==
    CASE ch = "a" -> "A" [] ch = "b" -> "B" [] ch = "c" -> "C" [] ch = "d" -> "D"
      [] ch = "e" -> "E" [] ch = "f" -> "F" [] ch = "g" -> "G" [] ch = "h" -> "H"
      [] ch = "i" -> "I" [] ch = "j" -> "J" [] ch = "k" -> "K" [] ch = "l" -> "L"
      [] ch = "m" -> "M" [] ch = "n" -> "N" [] ch = "o" -> "O" [] ch = "p" -> "P"
      [] ch = "q" -> "Q" [] ch = "r" -> "R" [] ch = "s" -> "S" [] ch = "t" -> "T"
      [] ch = "u" -> "U" [] ch = "v" -> "V" [] ch = "w" -> "W" [] ch = "x" -> "X"
      [] ch = "y" -> "Y" [] ch = "z" -> "Z" [] OTHER -> ch

\* deliberately wrong, to test the properties: the string is not upper-cased
ToUpperCaseSkipped(s) == s

\* s.toUpperCase()
ToUpperCase(s) == [i \in 1..Len(s) |-> UpperOf(s[i])]

Whitespace == {" ", "\t", "\n", "\r"}

\* s.replace(/\s/g, '')
StripWhitespace(s) == SelectSeq(s, LAMBDA ch : ch \notin Whitespace)

\* alphabet.indexOf(ch): the 0-based index, or -1
IndexOf(alphabet, ch) ==
    IF \E i \in 1..Len(alphabet) : alphabet[i] = ch
    THEN (CHOOSE i \in 1..Len(alphabet) : alphabet[i] = ch) - 1
    ELSE -1

-----------------------------------------------------------------------------
(* The Base32 codec *)

Alphabet ==
    <<"A", "B", "C", "D", "E", "F", "G", "H", "I", "J", "K", "L", "M", "N", "O", "P",
      "Q", "R", "S", "T", "U", "V", "W", "X", "Y", "Z", "2", "3", "4", "5", "6", "7">>

\* for (const byte of bytes) bits += byte.toString(2).padStart(8, '0'): the
\* 8-character strings of the bytes, one after the other
ByteBits(bs) ==
    [j \in 1..(8 * Len(bs)) |->
        PadStart(ToStringRadix(bs[((j - 1) \div 8) + 1], 2), 8, "0")[((j - 1) % 8) + 1]]

\* deliberately wrong, to test the properties: the bit string is not padded
PadToFiveSkipped(bits) == bits

\* while (bits.length % 5 !== 0) bits += '0'
RECURSIVE PadToFive(_)
PadToFive(bits) == IF Len(bits) % 5 = 0 THEN bits ELSE PadToFive(bits \o <<"0">>)

\* for (let i = 0; i < bits.length; i += 5) base32 += alphabet[parseInt(chunk, 2)]
EncodeChunks(bits) ==
    [k \in 1..((Len(bits) + 4) \div 5) |->
        Alphabet[ParseBinary(Slice(bits, 5 * (k - 1), 5 * k)) + 1]]

bytesToBase32(bs) == EncodeChunks(PadToFive(ByteBits(bs)))

\* bits += idx.toString(2).padStart(5, '0') for each character kept: the
\* 5-character strings of the indices, one after the other
IndexBits(kept) ==
    [j \in 1..(5 * Len(kept)) |->
        PadStart(ToStringRadix(IndexOf(Alphabet, kept[((j - 1) \div 5) + 1]), 2), 5, "0")
            [((j - 1) % 5) + 1]]

\* the loop over the characters: skip if indexOf is -1, else append 5 bits
CharBits(s) == IndexBits(SelectSeq(s, LAMBDA ch : IndexOf(Alphabet, ch) # -1))

\* deliberately wrong, to test the properties: the array sized with Math.ceil, keeping the incomplete last group
DecodeChunksCeil(bits) ==
    [i \in 1..((Len(bits) + 7) \div 8) |-> ParseBinary(Slice(bits, 8 * (i - 1), 8 * i))]

\* new Uint8Array(floor(bits.length / 8)), bytes[i] = parseInt(bits.slice(8i, 8i+8), 2)
DecodeChunks(bits) ==
    [i \in 1..(Len(bits) \div 8) |-> ParseBinary(Slice(bits, 8 * (i - 1), 8 * i))]

base32ToBytes(s) == DecodeChunks(CharBits(StripWhitespace(ToUpperCase(s))))

-----------------------------------------------------------------------------
(* Non-negative integer Numbers as big-endian base-256 digit sequences *)

NumZero == Repeat(0, NumLen)

\* the Num of an integer 0 <= v < 2^31
NumOfInt(v) ==
    [i \in 1..NumLen |-> IF NumLen - i >= 4 THEN 0 ELSE (v \div (256 ^ (NumLen - i))) % 256]

\* n * k + c for 0 <= k < 2^23 and 0 <= c < 2^23 (a product below 256^NumLen)
RECURSIVE MulAddFrom(_, _, _, _)
MulAddFrom(n, k, i, carry) ==
    IF i = 0 THEN <<>>
    ELSE LET cur == n[i] * k + carry
         IN MulAddFrom(n, k, i - 1, cur \div 256) \o <<cur % 256>>

MulAdd(n, k, c) == MulAddFrom(n, k, NumLen, c)

AddSmall(n, c) == MulAdd(n, 1, c)

\* floor(n / d) and n mod d for 0 < d < 2^23, by long division
RECURSIVE DivFrom(_, _, _, _, _)
DivFrom(n, d, i, rem, quot) ==
    IF i > NumLen THEN [quot |-> quot, rem |-> rem]
    ELSE LET cur == rem * 256 + n[i]
         IN DivFrom(n, d, i + 1, cur % d, quot \o <<cur \div d>>)

DivSmall(n, d) == DivFrom(n, d, 1, 0, <<>>).quot

ModSmall(n, d) == DivFrom(n, d, 1, 0, <<>>).rem

\* m < n, for two Nums
NumLess(m, n) ==
    \E i \in 1..NumLen : m[i] < n[i] /\ \A j \in 1..(i - 1) : m[j] = n[j]

NumLeq(m, n) == m = n \/ NumLess(m, n)

-----------------------------------------------------------------------------
(* Bitwise operators on non-negative integers below 2^31 *)

RECURSIVE XorInt(_, _)
XorInt(a, b) ==
    IF a = 0 THEN b
    ELSE IF b = 0 THEN a
    ELSE 2 * XorInt(a \div 2, b \div 2) + ((a + b) % 2)

RECURSIVE AndInt(_, _)
AndInt(a, b) ==
    IF a = 0 \/ b = 0 THEN 0
    ELSE 2 * AndInt(a \div 2, b \div 2) + ((a % 2) * (b % 2))

RECURSIVE OrInt(_, _)
OrInt(a, b) ==
    IF a = 0 THEN b
    ELSE IF b = 0 THEN a
    ELSE 2 * OrInt(a \div 2, b \div 2) + (IF a % 2 = 1 \/ b % 2 = 1 THEN 1 ELSE 0)

\* a << n for a result below 2^31
ShiftLeft(a, n) == a * (2 ^ n)

-----------------------------------------------------------------------------
(* generateCode: the counter and its 8-byte buffer *)

DefaultPeriod == 30
DefaultDigits == 6

\* deliberately wrong, to test the properties: the division by 1000 is forgotten
CounterOfMilliseconds(time, period) ==
    IF period > 0 THEN [finite |-> TRUE, neg |-> FALSE, mag |-> DivSmall(time, period)]
    ELSE [finite |-> FALSE, neg |-> FALSE, mag |-> NumZero]

\* Math.floor(time / 1000 / period) as a Number: finite (sign and magnitude), or
\* not finite (Infinity, or NaN for time = 0) when period = 0.  For period < 0
\* the quotient is negative and floor rounds away from zero.
Counter(time, period) ==
    IF period > 0 THEN
        [finite |-> TRUE, neg |-> FALSE, mag |-> DivSmall(DivSmall(time, 1000), period)]
    ELSE IF period = 0 THEN
        [finite |-> FALSE, neg |-> FALSE, mag |-> NumZero]
    ELSE
        [finite |-> TRUE, neg |-> TRUE,
         mag |-> DivSmall(AddSmall(time, 1000 * (-period) - 1), 1000 * (-period))]

\* the two's complement of four big-endian bytes: (2^32 - u) mod 2^32
RECURSIVE NegateFrom(_, _, _)
NegateFrom(u, i, carry) ==
    IF i = 0 THEN <<>>
    ELSE LET cur == (255 - u[i]) + carry
         IN NegateFrom(u, i - 1, cur \div 256) \o <<cur % 256>>

\* ToUint32 of a Number, as four big-endian bytes: the low 32 bits of a finite
\* value (modulo 2^32 for a negative one), and 0 for Infinity and NaN
ToUint32(c) ==
    LET low == SubSeq(c.mag, NumLen - 3, NumLen)
    IN IF ~c.finite THEN <<0, 0, 0, 0>>
       ELSE IF c.neg THEN NegateFrom(low, 4, 1)
       ELSE low

\* new ArrayBuffer(n): zero-filled
NewArrayBuffer(n) == Repeat(0, n)

\* view.setUint32(byteOffset, value, false) on the buffer
SetUint32(buf, byteOffset, value) ==
    [i \in 1..Len(buf) |->
        IF i > byteOffset /\ i <= byteOffset + 4
        THEN ToUint32(value)[i - byteOffset]
        ELSE buf[i]]

CounterBuffer(time, period) == SetUint32(NewArrayBuffer(8), 4, Counter(time, period))

-----------------------------------------------------------------------------
(* generateCode: dynamic truncation and the decimal string *)

\* deliberately wrong, to test the properties: the offset is taken from the first byte
TruncOffsetFirst(hmac) == AndInt(hmac[1], 15)

\* hmac[hmac.length - 1] & 0x0f
TruncOffset(hmac) == AndInt(hmac[Len(hmac)], 15)

\* ((hmac[offset] & 0x7f) << 24) | ((hmac[offset+1] & 0xff) << 16) | ...
TruncBinary(hmac, offset) ==
    OrInt(OrInt(ShiftLeft(AndInt(hmac[offset + 1], 127), 24),
                ShiftLeft(AndInt(hmac[offset + 2], 255), 16)),
          OrInt(ShiftLeft(AndInt(hmac[offset + 3], 255), 8),
                AndInt(hmac[offset + 4], 255)))

\* binary % Math.pow(10, digits), binary < 2^31: from digits = 10 on the modulus
\* exceeds every binary (and TLC's integers), and the remainder is binary itself
ModPow10(binary, digits) == IF digits >= 10 THEN binary ELSE binary % (10 ^ digits)

\* deliberately wrong, to test the properties: the string is not padded
OtpStringUnpadded(binary, digits) == ToStringRadix(ModPow10(binary, digits), 10)

\* otp.toString().padStart(digits, '0')
OtpString(binary, digits) == PadStart(ToStringRadix(ModPow10(binary, digits), 10), digits, "0")

-----------------------------------------------------------------------------
(* getRemainingSeconds *)

\* deliberately wrong, to test the properties: the seconds elapsed are subtracted from period - 1
getRemainingSecondsZeroBased(clock, period) ==
    IF period > 0 THEN (period - 1) - ModSmall(DivSmall(clock, 1000), period)
    ELSE IF period = 0 THEN "NaN"
    ELSE period - ModSmall(DivSmall(clock, 1000), -period)

\* period - (Math.floor(Date.now() / 1000) % period).  % takes the sign of the
\* dividend, which is not negative; a zero period gives NaN.
getRemainingSeconds(clock, period) ==
    IF period > 0 THEN period - ModSmall(DivSmall(clock, 1000), period)
    ELSE IF period = 0 THEN "NaN"
    ELSE period - ModSmall(DivSmall(clock, 1000), -period)

-----------------------------------------------------------------------------
(* The platform's keyed hash: crypto.subtle.sign('HMAC', key, data) with   *)
(* hash SHA-1 (FIPS 180-4, RFC 2104).  A 32-bit word is a pair <<high 16   *)
(* bits, low 16 bits>>.                                                    *)

WXor(u, v) == <<XorInt(u[1], v[1]), XorInt(u[2], v[2])>>
WAnd(u, v) == <<AndInt(u[1], v[1]), AndInt(u[2], v[2])>>
WNot(u) == <<65535 - u[1], 65535 - u[2]>>
WAddLow(u, v, lo) == <<(u[1] + v[1] + (lo \div 65536)) % 65536, lo % 65536>>
WAdd(u, v) == WAddLow(u, v, u[2] + v[2])

RotlSmall(u, n) ==
    <<((u[1] * (2 ^ n)) % 65536) + (u[2] \div (2 ^ (16 - n))),
      ((u[2] * (2 ^ n)) % 65536) + (u[1] \div (2 ^ (16 - n)))>>

Rotl(u, n) == IF n < 16 THEN RotlSmall(u, n) ELSE RotlSmall(<<u[2], u[1]>>, n - 16)

ShaF(t, b, c, d) ==
    IF t < 20 THEN WXor(WAnd(b, c), WAnd(WNot(b), d))
    ELSE IF t < 40 THEN WXor(WXor(b, c), d)
    ELSE IF t < 60 THEN WXor(WXor(WAnd(b, c), WAnd(b, d)), WAnd(c, d))
    ELSE WXor(WXor(b, c), d)

ShaK(t) ==
    IF t < 20 THEN <<23170, 31129>>
    ELSE IF t < 40 THEN <<28377, 60321>>
    ELSE IF t < 60 THEN <<36635, 48348>>
    ELSE <<51810, 49622>>

ShaInit ==
    <<<<26437, 8961>>, <<61389, 43913>>, <<39098, 56574>>, <<4146, 21622>>, <<50130, 57840>>>>

NextWord(w, n) ==
    Rotl(WXor(WXor(w[n - 3], w[n - 8]), WXor(w[n - 14], w[n - 16])), 1)

\* the message schedule, extended to `until` words
RECURSIVE Schedule(_, _)
Schedule(w, until) ==
    IF Len(w) >= until THEN w
    ELSE Schedule(Append(w, NextWord(w, Len(w) + 1)), until)

\* the 80 words of the schedule, sixteen at a time
RECURSIVE FullSchedule(_)
FullSchedule(w) ==
    IF Len(w) >= 80 THEN w ELSE FullSchedule(Schedule(w, Len(w) + 16))

\* one round on the working state s = <<a, b, c, d, e>>
Round(t, s, w) ==
    <<WAdd(WAdd(WAdd(WAdd(Rotl(s[1], 5), ShaF(t, s[2], s[3], s[4])), s[5]), ShaK(t)), w[t + 1]),
      s[1], Rotl(s[2], 30), s[3], s[4]>>

\* rounds t .. until-1; the guard on s has each round finished before the next
RECURSIVE Rounds(_, _, _, _)
Rounds(t, until, s, w) ==
    IF t = until \/ Len(s) # 5 THEN s
    ELSE Rounds(t + 1, until, Round(t, s, w), w)

\* the 80 rounds, ten at a time
RECURSIVE AllRounds(_, _, _)
AllRounds(t, s, w) ==
    IF t = 80 \/ Len(s) # 5 THEN s
    ELSE AllRounds(t + 10, Rounds(t, t + 10, s, w), w)

BlockWords(blk) ==
    [i \in 1..16 |-> <<blk[4 * i - 3] * 256 + blk[4 * i - 2], blk[4 * i - 1] * 256 + blk[4 * i]>>]

AddState(h, s) == [i \in 1..5 |-> WAdd(h[i], s[i])]

Compress(h, blk) == AddState(h, AllRounds(0, h, FullSchedule(BlockWords(blk))))

\* the padding of a message of fewer than 2^20 bytes
ShaPad(m) ==
    m \o <<128>> \o Repeat(0, (119 - (Len(m) % 64)) % 64) \o Repeat(0, 4)
      \o <<((Len(m) * 8) \div 16777216) % 256, ((Len(m) * 8) \div 65536) % 256,
           ((Len(m) * 8) \div 256) % 256, (Len(m) * 8) % 256>>

RECURSIVE ShaBlocks(_, _)
ShaBlocks(h, m) ==
    IF Len(m) = 0 \/ Len(h) # 5 THEN h
    ELSE ShaBlocks(Compress(h, SubSeq(m, 1, 64)), SubSeq(m, 65, Len(m)))

WordBytes(u) == <<u[1] \div 256, u[1] % 256, u[2] \div 256, u[2] % 256>>

ShaDigest(h) ==
    WordBytes(h[1]) \o WordBytes(h[2]) \o WordBytes(h[3]) \o WordBytes(h[4]) \o WordBytes(h[5])

Sha1(m) == ShaDigest(ShaBlocks(ShaInit, ShaPad(m)))

\* HMAC with the key k already padded to the block size
HmacPadded(k, data) ==
    Sha1([i \in 1..64 |-> XorInt(k[i], 92)] \o Sha1([i \in 1..64 |-> XorInt(k[i], 54)] \o data))

HmacKey(key) == IF Len(key) > 64 THEN Sha1(key) ELSE key

PadKey(k0) == k0 \o Repeat(0, 64 - Len(k0))

HmacSha1(key, data) == HmacPadded(PadKey(HmacKey(key)), data)

\* crypto.subtle.importKey('raw', keyData, {name: 'HMAC', hash: 'SHA-1'}, ...):
\* an empty key is refused (DataError)
ImportKeyAccepts(keyData) == Len(keyData) > 0

-----------------------------------------------------------------------------
(* The codec's callers *)

SecretLength == 20

\* the ASCII bytes of "12345678901234567890"
RfcKey == <<49, 50, 51, 52, 53, 54, 55, 56, 57, 48, 49, 50, 51, 52, 53, 54, 55, 56, 57, 48>>

RfcSecret ==
    <<"G", "E", "Z", "D", "G", "N", "B", "V", "G", "Y", "3", "T", "Q", "O", "J", "Q",
      "G", "E", "Z", "D", "G", "N", "B", "V", "G", "Y", "3", "T", "Q", "O", "J", "Q">>

\* the same secret as a user retypes it: lower case, in groups of four
TypedSecret ==
    <<"g", "e", "z", "d", " ", "g", "n", "b", "v", " ", "g", "y", "3", "t", " ",
      "q", "o", "j", "q", "-", "G", "E", "Z", "D", "\t", "G", "N", "B", "V", "\n",
      "G", "Y", "3", "T", "=", "Q", "O", "J", "Q", "=">>

UriSecret ==
    <<"J", "B", "S", "W", "Y", "3", "D", "P", "E", "H", "P", "K", "3", "P", "X", "P">>

ByteSamples == {0, 1, 72, 170, 255}

SeqsUpTo(S, n) == UNION {[1..k -> S] : k \in 0..n}

ByteInputs ==
    SeqsUpTo(ByteSamples, MaxLen)
        \cup {RfcKey, <<72, 101, 108, 108, 111>>}
        \cup {[i \in 1..n |-> (i * 37 + n) % 256] : n \in {7, 8, 9, 63, 64}}
        \cup {Repeat(255, 64), Repeat(0, 64)}

TextChars == {"A", "H", "h", "7", "2", " ", "-", "1"}

TextInputs ==
    SeqsUpTo(TextChars, MaxTextLen) \cup {RfcSecret, TypedSecret, UriSecret}

\* generateSecretBytes(length): crypto.getRandomValues fills the array with any
\* bytes; the model draws from a handful of fillings
generateSecretBytes(length) ==
    {Repeat(0, length), Repeat(255, length)}
        \cup {[i \in 1..length |-> (i * i * k + 3 * k) % 256] : k \in {1, 7, 50, 201}}

CodecInit ==
    /\ codecPc = "start"
    /\ decoded = <<>>
    /\ \/ codecOp = "bytesToBase32" /\ bytes \in ByteInputs /\ base32 = <<>>
       \/ codecOp = "base32ToBytes" /\ bytes = <<>> /\ base32 \in TextInputs
       \/ codecOp = "generateSecret" /\ bytes = <<>> /\ base32 = <<>>

CodecIdle ==
    /\ codecOp = "none"
    /\ codecPc = "start"
    /\ bytes = <<>>
    /\ base32 = <<>>
    /\ decoded = <<>>

Encode ==
    /\ codecOp = "bytesToBase32"
    /\ codecPc = "start"
    /\ base32' = bytesToBase32(bytes)
    /\ codecPc' = "encoded"
    /\ UNCHANGED <<codecOp, bytes, decoded, calls, now, ticks, countdown>>

GenerateSecret ==
    /\ codecOp = "generateSecret"
    /\ codecPc = "start"
    /\ \E b \in generateSecretBytes(SecretLength) :
          /\ bytes' = b
          /\ base32' = bytesToBase32(b)
    /\ codecPc' = "encoded"
    /\ UNCHANGED <<codecOp, decoded, calls, now, ticks, countdown>>

Decode ==
    /\ \/ codecOp = "base32ToBytes" /\ codecPc = "start"
       \/ codecPc = "encoded"
    /\ decoded' = base32ToBytes(base32)
    /\ codecPc' = "decoded"
    /\ UNCHANGED <<codecOp, bytes, base32, calls, now, ticks, countdown>>

-----------------------------------------------------------------------------
(* generateCode invocations *)

\* argument positions of generateCode(secret, time, period, digits)
ArgOr(args, k, default) == IF Len(args) >= k THEN args[k] ELSE default

\* dateNow is what Date.now() returned to the initialiser of `time`, which runs
\* only when the argument is omitted
IdleCall ==
    [pc |-> "idle", args |-> <<>>, secret |-> <<>>, time |-> NumZero, period |-> 0,
     digits |-> 0, secretBytes |-> <<>>, counterBuffer |-> <<>>, key |-> <<>>,
     hmac |-> <<>>, offset |-> 0, binary |-> 0, code |-> <<>>, error |-> "",
     importCalls |-> 0, signCalls |-> 0, dateNow |-> NumZero]

\* lines 122-138: the parameters with their defaults, the counter buffer, the
\* decoded secret, and the call of importKey, at which the function suspends
Invoked(args, clock) ==
    LET time == ArgOr(args, 2, clock)
        period == ArgOr(args, 3, DefaultPeriod)
        digits == ArgOr(args, 4, DefaultDigits)
    IN [IdleCall EXCEPT
           !.pc = "importKey",
           !.args = args,
           !.secret = args[1],
           !.time = time,
           !.period = period,
           !.digits = digits,
           !.secretBytes = base32ToBytes(args[1]),
           !.counterBuffer = CounterBuffer(time, period),
           !.importCalls = 1]

\* the await of importKey yields the key: line 141 calls sign and suspends
ImportResolved(c) ==
    [c EXCEPT !.pc = "sign", !.key = c.secretBytes, !.signCalls = c.signCalls + 1]

\* deliberately wrong, to test the properties: a failed step is tried again
RejectedRetried(c, err) ==
    IF err = "importKey"
    THEN [c EXCEPT !.pc = "importKey", !.importCalls = c.importCalls + 1]
    ELSE [c EXCEPT !.pc = "sign", !.signCalls = c.signCalls + 1]

\* an await that throws rejects the promise generateCode returned
Rejected(c, err) == [c EXCEPT !.pc = "rejected", !.error = err]

\* deliberately wrong, to test the properties: the default time is read when sign is called, not at invocation
SignDataLate(c, clock) ==
    IF Len(c.args) >= 2 THEN c.counterBuffer ELSE CounterBuffer(clock, c.period)

\* the data handed to sign: the buffer built at invocation; the clock is not
\* read again
SignData(c, clock) == c.counterBuffer

\* lines 142-153: the await of sign yields the signature
SignResolved(c, signature) ==
    LET hmac == signature
        offset == TruncOffset(hmac)
        binary == TruncBinary(hmac, offset)
    IN [c EXCEPT
           !.pc = "fulfilled",
           !.hmac = hmac,
           !.offset = offset,
           !.binary = binary,
           !.code = OtpString(binary, c.digits)]

Invoke(i, args) ==
    /\ calls[i].pc = "idle"
    /\ calls' = [calls EXCEPT
                   ![i] = [Invoked(args, now) EXCEPT
                              !.dateNow = IF Len(args) >= 2 THEN NumZero ELSE now]]
    /\ UNCHANGED <<codecVars, now, ticks, countdown>>

ImportKeyResolves(i) ==
    /\ calls[i].pc = "importKey"
    /\ ImportKeyAccepts(calls[i].secretBytes)
    /\ calls' = [calls EXCEPT ![i] = ImportResolved(calls[i])]
    /\ UNCHANGED <<codecVars, now, ticks, countdown>>

ImportKeyRejects(i) ==
    /\ calls[i].pc = "importKey"
    /\ calls' = [calls EXCEPT ![i] = Rejected(calls[i], "importKey")]
    /\ UNCHANGED <<codecVars, now, ticks, countdown>>

SignRejects(i) ==
    /\ calls[i].pc = "sign"
    /\ calls' = [calls EXCEPT ![i] = Rejected(calls[i], "sign")]
    /\ UNCHANGED <<codecVars, now, ticks, countdown>>

\* times in milliseconds: whole seconds times 1000, plus a rest
TimeOf(seconds, ms) == MulAdd(NumOfInt(seconds), 1000, ms)

T59 == TimeOf(59, 0)
T1111111109 == TimeOf(1111111109, 0)
T1234567890 == TimeOf(1234567890, 0)
T2000000000 == TimeOf(2000000000, 0)

ClockStart == T59
TickMs == 1000

\* the clock values the model reaches within `n` ticks of `start`
RECURSIVE ClockValues(_, _)
ClockValues(start, n) ==
    IF n = 0 THEN {start} ELSE {start} \cup ClockValues(AddSmall(start, TickMs), n - 1)

EmptySecret == <<>>

\* the argument lists of the concurrent callers: a call without a time, a
\* retyped secret with every argument, and an empty secret
Requests ==
    {<<RfcSecret>>, <<TypedSecret, T1111111109, 30, 6>>, <<EmptySecret>>}

\* the calls of the RFC 6238 test
RfcRequests ==
    {<<RfcSecret, T59>>, <<RfcSecret, T1111111109>>, <<RfcSecret, T1234567890>>,
     <<RfcSecret, T2000000000>>}

\* the (key, data) pairs the requests hand to sign
SignInputs ==
    {<<base32ToBytes(r[1]), CounterBuffer(ArgOr(r, 2, t), ArgOr(r, 3, DefaultPeriod))>> :
        r \in {q \in Requests \cup RfcRequests : ImportKeyAccepts(base32ToBytes(q[1]))},
        t \in ClockValues(ClockStart, MaxTicks)}

\* their signatures, computed once
SignCache ==
    {[key |-> km[1], data |-> km[2], signature |-> HmacSha1(km[1], km[2])] : km \in SignInputs}

\* crypto.subtle.sign('HMAC', key, data)
Sign(key, data) ==
    IF \E e \in SignCache : e.key = key /\ e.data = data
    THEN (CHOOSE e \in SignCache : e.key = key /\ e.data = data).signature
    ELSE HmacSha1(key, data)

SignResolves(i) ==
    /\ calls[i].pc = "sign"
    /\ calls' = [calls EXCEPT
                   ![i] = SignResolved(calls[i], Sign(calls[i].key, SignData(calls[i], now)))]
    /\ UNCHANGED <<codecVars, now, ticks, countdown>>

\* the clock advances
Tick(limit) ==
    /\ ticks < limit
    /\ now' = AddSmall(now, TickMs)
    /\ ticks' = ticks + 1
    /\ UNCHANGED <<codecVars, calls, countdown>>

CountdownIdle == [period |-> DefaultPeriod, polls |-> 0,
                  at |-> NumZero, value |-> 0, prevAt |-> NumZero, prevValue |-> 0]

CallsIdle(n) == [i \in 1..n |-> IdleCall]

Init ==
    /\ CodecIdle
    /\ calls = CallsIdle(MaxCalls)
    /\ now = ClockStart
    /\ ticks = 0
    /\ countdown = CountdownIdle

Next ==
    \/ \E i \in DOMAIN calls, args \in Requests : Invoke(i, args)
    \/ \E i \in DOMAIN calls : ImportKeyResolves(i)
    \/ \E i \in DOMAIN calls : ImportKeyRejects(i)
    \/ \E i \in DOMAIN calls : SignResolves(i)
    \/ \E i \in DOMAIN calls : SignRejects(i)
    \/ Tick(MaxTicks)

Spec == Init /\ [][Next]_vars

-----------------------------------------------------------------------------
(* The calls of the RFC 6238 test, in flight together *)

InitVectors ==
    /\ CodecIdle
    /\ calls = CallsIdle(MaxCalls)
    /\ now = ClockStart
    /\ ticks = 0
    /\ countdown = CountdownIdle

NextVectors ==
    \/ \E i \in DOMAIN calls, args \in RfcRequests : Invoke(i, args)
    \/ \E i \in DOMAIN calls : ImportKeyResolves(i)
    \/ \E i \in DOMAIN calls : ImportKeyRejects(i)
    \/ \E i \in DOMAIN calls : SignResolves(i)
    \/ \E i \in DOMAIN calls : SignRejects(i)

SpecVectors == InitVectors /\ [][NextVectors]_vars

-----------------------------------------------------------------------------
(* The codec alone *)

InitCodec ==
    /\ CodecInit
    /\ calls = CallsIdle(1)
    /\ now = ClockStart
    /\ ticks = 0
    /\ countdown = CountdownIdle

NextCodec == Encode \/ GenerateSecret \/ Decode

SpecCodec == InitCodec /\ [][NextCodec]_vars

-----------------------------------------------------------------------------
(* One generateCode call over wide arguments, the platform returning any digest *)

Pow2to32 == MulAdd(NumOfInt(65536), 65536, 0)

SecondsSamples ==
    {NumOfInt(n) : n \in {0, 29, 30, 59, 1111111109, 1234567890, 2000000000}}
        \cup {MulAdd(NumOfInt(2147483647), 2, 1), Pow2to32,
              MulAdd(MulAdd(NumOfInt(2147483647), 2, 1), 30, 29), MulAdd(Pow2to32, 30, 0),
              MulAdd(Pow2to32, 60, 59)}

TimeSamples == {MulAdd(sec, 1000, ms) : sec \in SecondsSamples, ms \in {0, 999}}

PeriodSamples == {1, 30, 60, 0, -30}

WideArgs ==
    {<<RfcSecret, t, p, d>> : t \in TimeSamples, p \in PeriodSamples, d \in 1..MaxDigits}
        \cup {<<RfcSecret>>, <<RfcSecret, T59>>, <<RfcSecret, T59, 60>>}

\* HMAC-SHA1(RfcKey, counter 1), the digest behind the first RFC 6238 vector
RfcDigest ==
    <<117, 164, 138, 25, 212, 203, 225, 0, 100, 78, 138, 193, 57, 126, 234, 116, 122, 45,
      51, 171>>

\* 20-byte digests: three fillings, each with every offset nibble in the last byte
DigestSamples ==
    {[i \in 1..20 |-> IF i = 20 THEN 16 * ((o * 7) % 16) + o
                      ELSE IF k = 1 THEN 255
                      ELSE IF k = 2 THEN 0
                      ELSE (i * 53 + 11 * o) % 256] : o \in 0..15, k \in 1..3}
        \cup {RfcDigest}

SignResolvesAny(i) ==
    /\ calls[i].pc = "sign"
    /\ \E signature \in DigestSamples :
          calls' = [calls EXCEPT ![i] = SignResolved(calls[i], signature)]
    /\ UNCHANGED <<codecVars, now, ticks, countdown>>

InitAnyDigest ==
    /\ CodecIdle
    /\ calls = CallsIdle(1)
    /\ now = ClockStart
    /\ ticks = 0
    /\ countdown = CountdownIdle

NextAnyDigest ==
    \/ \E args \in WideArgs : Invoke(1, args)
    \/ ImportKeyResolves(1)
    \/ ImportKeyRejects(1)
    \/ SignResolvesAny(1)
    \/ SignRejects(1)

SpecAnyDigest == InitAnyDigest /\ [][NextAnyDigest]_vars

-----------------------------------------------------------------------------
(* The countdown: a caller polls getRemainingSeconds while the clock runs *)

CountdownStarts == {TimeOf(57, 250), TimeOf(1111111105, 999)}

CountdownPeriods == {1, 7, 30, 60, 0, -30}

Poll ==
    /\ countdown' = [countdown EXCEPT
                        !.polls = Min(countdown.polls + 1, 2),
                        !.prevAt = countdown.at,
                        !.prevValue = countdown.value,
                        !.at = now,
                        !.value = getRemainingSeconds(now, countdown.period)]
    /\ UNCHANGED <<codecVars, calls, now, ticks>>

InitClock ==
    /\ CodecIdle
    /\ calls = CallsIdle(1)
    /\ now \in CountdownStarts
    /\ ticks = 0
    /\ \E p \in CountdownPeriods : countdown = [CountdownIdle EXCEPT !.period = p]

NextClock == Tick(MaxCountdownTicks) \/ Poll

SpecClock == InitClock /\ [][NextClock]_vars

-----------------------------------------------------------------------------
(* Properties of the codec *)

\* bit j (0-based, most significant first) of the bytes bs, 0 past the end
StreamBit(bs, j) ==
    IF j < 8 * Len(bs) THEN (bs[(j \div 8) + 1] \div (2 ^ (7 - (j % 8)))) % 2 ELSE 0

\* the g-th (0-based) 5-bit group of the bytes bs
GroupValue(bs, g) ==
    16 * StreamBit(bs, 5 * g) + 8 * StreamBit(bs, 5 * g + 1) + 4 * StreamBit(bs, 5 * g + 2)
        + 2 * StreamBit(bs, 5 * g + 3) + StreamBit(bs, 5 * g + 4)

Encoded == codecOp \in {"bytesToBase32", "generateSecret"} /\ codecPc \in {"encoded", "decoded"}

\* C1: decoding the encoding of a byte sequence gives the same length and the
\* same byte at every index; the padding bits give no extra byte.
C1_RoundTrip ==
    (codecOp \in {"bytesToBase32", "generateSecret"} /\ codecPc = "decoded") =>
        /\ Len(decoded) = Len(bytes)
        /\ \A i \in 1..Len(bytes) : decoded[i] = bytes[i]

C1_Witness ==
    /\ codecOp = "bytesToBase32"
    /\ codecPc = "decoded"
    /\ Len(bytes) = 64
    /\ Len(base32) * 5 > Len(bytes) * 8
    /\ decoded = bytes

\* C3: n bytes encode to ceil(8n/5) characters, the i-th the alphabet character
\* of the i-th 5-bit group of the zero-padded bit string; no '=' is emitted; a
\* generated secret has 32 characters of the alphabet; the RFC key encodes to
\* the RFC secret.
C3_EncodeShape ==
    Encoded =>
        /\ Len(base32) = (8 * Len(bytes) + 4) \div 5
        /\ \A k \in 1..Len(base32) :
              /\ base32[k] = Alphabet[GroupValue(bytes, k - 1) + 1]
              /\ base32[k] # "="
        /\ (Len(bytes) = 0 => base32 = <<>>)
        /\ (codecOp = "generateSecret" => Len(base32) = 32)
        /\ (bytes = RfcKey => base32 = RfcSecret)

C3_Witness ==
    /\ codecOp = "generateSecret"
    /\ codecPc = "encoded"
    /\ Len(bytes) = SecretLength
    /\ Len(base32) = 32
    /\ bytes # Repeat(0, SecretLength)

LowerCase ==
    <<"a", "b", "c", "d", "e", "f", "g", "h", "i", "j", "k", "l", "m", "n", "o", "p",
      "q", "r", "s", "t", "u", "v", "w", "x", "y", "z">>

\* a lower-case letter stands for its upper-case form
Canonical(ch) ==
    IF \E i \in 1..26 : LowerCase[i] = ch
    THEN Alphabet[CHOOSE i \in 1..26 : LowerCase[i] = ch]
    ELSE ch

InAlphabet(ch) == \E i \in 1..32 : Alphabet[i] = ch

\* the characters that remain, in canonical form
Remaining(text) ==
    LET kept == SelectSeq(text, LAMBDA ch : InAlphabet(Canonical(ch)))
    IN [j \in 1..Len(kept) |-> Canonical(kept[j])]

\* bit j (0-based) of the concatenated 5-bit indices of the alphabet characters s
IndexBit(s, j) ==
    LET idx == (CHOOSE i \in 1..32 : Alphabet[i] = s[(j \div 5) + 1]) - 1
    IN (idx \div (2 ^ (4 - (j % 5)))) % 2

\* the b-th (0-based) 8-bit group of those bits
OctetValue(s, b) ==
    128 * IndexBit(s, 8 * b) + 64 * IndexBit(s, 8 * b + 1) + 32 * IndexBit(s, 8 * b + 2)
        + 16 * IndexBit(s, 8 * b + 3) + 8 * IndexBit(s, 8 * b + 4)
        + 4 * IndexBit(s, 8 * b + 5) + 2 * IndexBit(s, 8 * b + 6) + IndexBit(s, 8 * b + 7)

\* C4: base32ToBytes returns bytes for every string; of the k characters that
\* remain (lower case read as upper case, everything outside the alphabet
\* skipped) it returns the floor(5k/8) complete 8-bit groups, and that is what
\* it returns for the remaining characters alone.
C4_DecodeLenient ==
    codecPc = "decoded" =>
        LET s == Remaining(base32)
        IN /\ Len(decoded) = (5 * Len(s)) \div 8
           /\ \A b \in 1..Len(decoded) :
                 /\ decoded[b] \in 0..255
                 /\ decoded[b] = OctetValue(s, b - 1)
           /\ decoded = base32ToBytes(s)

C4_Witness ==
    /\ codecOp = "base32ToBytes"
    /\ codecPc = "decoded"
    /\ base32 = TypedSecret
    /\ decoded = RfcKey

-----------------------------------------------------------------------------
(* Properties of generateCode *)

Chars6(a, b, c, d, e, f) == <<a, b, c, d, e, f>>

\* C2: with the RFC secret, period 30 and 6 digits, generateCode returns the
\* RFC 6238 SHA-1 values for the times 59 s, 1111111109 s, 1234567890 s and
\* 2000000000 s.
C2_RfcVectors ==
    \A i \in DOMAIN calls :
        (/\ calls[i].pc = "fulfilled"
         /\ calls[i].secret = RfcSecret
         /\ calls[i].period = 30
         /\ calls[i].digits = 6) =>
            /\ calls[i].time = T59 => calls[i].code = Chars6("2", "8", "7", "0", "8", "2")
            /\ calls[i].time = T1111111109 =>
                  calls[i].code = Chars6("0", "8", "1", "8", "0", "4")
            /\ calls[i].time = T1234567890 =>
                  calls[i].code = Chars6("0", "0", "5", "9", "2", "4")
            /\ calls[i].time = T2000000000 =>
                  calls[i].code = Chars6("2", "7", "9", "0", "3", "7")

C2_Witness ==
    \E i \in DOMAIN calls :
        /\ calls[i].pc = "fulfilled"
        /\ calls[i].secret = RfcSecret
        /\ calls[i].time = T1234567890
        /\ calls[i].code = Chars6("0", "0", "5", "9", "2", "4")

\* the number a decimal string denotes (below 2^31)
RECURSIVE DecimalValue(_)
DecimalValue(s) ==
    IF Len(s) = 0 THEN 0
    ELSE 10 * DecimalValue(SubSeq(s, 1, Len(s) - 1))
           + (CHOOSE d \in 0..9 : DigitChar(d) = s[Len(s)])

\* C5: the offset is the low nibble of the digest's last byte, so the four bytes
\* read lie inside the 20-byte digest; the value is the 31-bit big-endian number
\* of those bytes with the top bit cleared; the code has exactly `digits`
\* decimal characters and denotes the value modulo 10^digits.
C5_Truncation ==
    \A i \in DOMAIN calls :
        (calls[i].pc = "fulfilled" /\ calls[i].digits > 0) =>
            LET h == calls[i].hmac
                o == calls[i].offset
                v == calls[i].binary
            IN /\ Len(h) = 20
               /\ o = h[20] % 16
               /\ o \in 0..15
               /\ o + 4 <= Len(h)
               /\ v = (h[o + 1] % 128) * 16777216 + h[o + 2] * 65536 + h[o + 3] * 256 + h[o + 4]
               /\ v \in 0..2147483647
               /\ Len(calls[i].code) = calls[i].digits
               /\ \A k \in 1..Len(calls[i].code) : calls[i].code[k] \in DecimalChars
               /\ DecimalValue(calls[i].code) =
                     (IF calls[i].digits >= 10 THEN v ELSE v % (10 ^ calls[i].digits))

C5_Witness ==
    \E i \in DOMAIN calls :
        /\ calls[i].pc = "fulfilled"
        /\ calls[i].digits = 10
        /\ calls[i].offset = 2
        /\ calls[i].hmac[calls[i].offset + 1] >= 128
        /\ Len(calls[i].code) = 10
        /\ calls[i].code[1] = "0"

\* C7: a call with a zero or negative period never returns a code.
C7_PeriodRejected ==
    \A i \in DOMAIN calls :
        (calls[i].pc # "idle" /\ calls[i].period <= 0) => calls[i].pc # "fulfilled"

\* C8: one call invokes importKey at most once and sign at most once; a failure
\* of either ends the call rejected with that failure and without a code; a
\* code is returned only after sign has succeeded.
C8_NoRetryNoFallback ==
    \A i \in DOMAIN calls :
        /\ calls[i].importCalls <= 1
        /\ calls[i].signCalls <= 1
        /\ calls[i].error # "" =>
              /\ calls[i].pc = "rejected"
              /\ calls[i].code = <<>>
              /\ calls[i].error = "importKey" => calls[i].signCalls = 0
        /\ calls[i].pc = "rejected" => calls[i].error \in {"importKey", "sign"}
        /\ calls[i].pc = "fulfilled" =>
              /\ calls[i].importCalls = 1
              /\ calls[i].signCalls = 1
              /\ Len(calls[i].hmac) = 20
              /\ calls[i].error = ""

C8_Witness ==
    \E i, j \in DOMAIN calls :
        /\ calls[i].pc = "rejected" /\ calls[i].error = "sign" /\ calls[i].signCalls = 1
        /\ calls[j].pc = "rejected" /\ calls[j].error = "importKey"
        /\ calls[j].secret = EmptySecret

\* the signature a call with these arguments obtains when it runs alone,
\* started at clock value `clock`
SignatureAlone(args, clock) ==
    Sign(base32ToBytes(args[1]),
         CounterBuffer(ArgOr(args, 2, clock), ArgOr(args, 3, DefaultPeriod)))

\* the outcome of call c is the one of a call running alone
CallAlone(c) ==
    /\ c.pc = "fulfilled" =>
          \E h \in {SignatureAlone(c.args, c.dateNow)} :
              \E v \in {TruncBinary(h, TruncOffset(h))} :
                  c.code = OtpString(v, ArgOr(c.args, 4, DefaultDigits))
    /\ c.pc = "rejected" => c.error \in {"importKey", "sign"}
    /\ ~ImportKeyAccepts(base32ToBytes(c.args[1])) => c.pc \in {"importKey", "rejected"}

\* C9: whatever the interleaving of the calls and the clock, each call's
\* outcome is the one its own arguments give when it runs alone, an omitted
\* time being the clock value at its invocation.
C9_Independent ==
    \A i \in DOMAIN calls : calls[i].pc # "idle" => CallAlone(calls[i])

C9_Witness ==
    \E i, j \in DOMAIN calls :
        /\ i # j
        /\ calls[i].pc = "fulfilled" /\ calls[j].pc = "fulfilled"
        /\ Len(calls[i].args) = 1 /\ calls[i].dateNow # now
        /\ Len(calls[j].args) = 1 /\ calls[j].dateNow = now
        /\ calls[i].code # calls[j].code

\* C10: for a positive period the message is 8 bytes, the first four zero, the
\* last four the big-endian low 32 bits of the number q of the period window
\* [q * period * 1000, (q + 1) * period * 1000) that holds the time.
C10_CounterBuffer ==
    \A i \in DOMAIN calls :
        (calls[i].pc # "idle" /\ calls[i].period > 0) =>
            /\ Len(calls[i].counterBuffer) = 8
            /\ \A k \in 1..4 : calls[i].counterBuffer[k] = 0
            /\ \E high \in 0..255 :
                  /\ NumLeq(MulAdd(Repeat(0, NumLen - 5) \o <<high>>
                                     \o SubSeq(calls[i].counterBuffer, 5, 8),
                                   1000 * calls[i].period, 0),
                            calls[i].time)
                  /\ NumLess(calls[i].time,
                             MulAdd(Repeat(0, NumLen - 5) \o <<high>>
                                      \o SubSeq(calls[i].counterBuffer, 5, 8),
                                    1000 * calls[i].period, 1000 * calls[i].period))

C10_Witness ==
    \E i \in DOMAIN calls :
        /\ calls[i].pc = "sign"
        /\ calls[i].period = 30
        /\ calls[i].time = MulAdd(MulAdd(Pow2to32, 60, 59), 1000, 999)
        /\ calls[i].counterBuffer = <<0, 0, 0, 0, 0, 0, 0, 1>>

-----------------------------------------------------------------------------
(* Properties of the countdown *)

\* C6: for a positive period the value returned lies in 1..period; of two
\* polls one second apart the later is one less than the earlier, except when
\* the later second is a multiple of the period: then the earlier is 1 and the
\* later is period.
C6_Countdown ==
    (countdown.period > 0 /\ countdown.polls >= 1) =>
        /\ countdown.value \in 1..countdown.period
        /\ (countdown.polls >= 2 /\ countdown.at = AddSmall(countdown.prevAt, 1000)) =>
              IF ModSmall(DivSmall(countdown.at, 1000), countdown.period) = 0
              THEN countdown.prevValue = 1 /\ countdown.value = countdown.period
              ELSE countdown.value = countdown.prevValue - 1

C6_Witness ==
    /\ countdown.period = 30
    /\ countdown.polls >= 2
    /\ countdown.at = AddSmall(countdown.prevAt, 1000)
    /\ countdown.prevValue = 1
    /\ countdown.value = 30

=============================================================================
